---- MODULE Spec2Model ----
(***************************************************************************)
(* Model of main.py: the screenshot poller (get_board_letters), the damage *)
(* calculator (word_damage_calculator) and the matching / ranking loop of  *)
(* main().                                                                 *)
(*                                                                         *)
(* Strings of the program are sequences of one-character strings.          *)
(* Damage values are integers in hundredths (1.25 is 125).  The multiplier *)
(* is an exact fraction <<numerator, denominator>> in lowest terms.        *)
(***************************************************************************)
EXTENDS Integers, Sequences, FiniteSets, Bags, TLC

VARIABLES
    dir,              \* names of the files in SCREENSHOT_DIR
    analyzed_images,  \* global list of the file names already analyzed
    gems_and_letters, \* global dict: gem category -> string of letters
    ALL_WORDS,        \* the length-filtered dictionary (a tuple)
    newest_file,      \* local of get_board_letters in the last poll
    gems,             \* local: the 16 tile classifications of the last analyzed file
    raw_text,         \* local: the OCR characters of the last analyzed file
    input_letters,    \* what get_board_letters returned to the last poll
    letter_count,     \* Counter(input_letters) of the last ranking pass
    valid_words,      \* local list of main(): matched words (sorted after a pass)
    printed,          \* the (word, damage) entries the last poll printed
    outcome,          \* how the last loop iteration ended
    pc,               \* "running", or "crashed" after an uncaught KeyError
    calc              \* one call of word_damage_calculator: argument, locals, result

vars == <<dir, analyzed_images, gems_and_letters, ALL_WORDS, newest_file, gems,
          raw_text, input_letters, letter_count, valid_words, printed, outcome,
          pc, calc>>

---------------------------------------------------------------------------
(* Generic helpers on strings (sequences of characters).                   *)

Range(s) == {s[i] : i \in DOMAIN s}

\* Python: c in s
In(c, s) == \E i \in DOMAIN s : s[i] = c

\* Python: Counter(s)[c] for a key that may be missing (a Counter yields 0)
Count(c, s) == Cardinality({i \in DOMAIN s : s[i] = c})

Min(a, b) == IF a <= b THEN a ELSE b

RECURSIVE GCD(_, _)
GCD(a, b) == IF b = 0 THEN a ELSE GCD(b, a % b)

EmptyDict == [k \in {} |-> <<>>]

---------------------------------------------------------------------------
(* The constant tables.                                                    *)

\* GEM_DAMAGE_MODIFIERS, in hundredths
GEM_DAMAGE_MODIFIERS ==
    [Amethyst |-> 115, Emerald |-> 120, Sapphire |-> 125, Garnet |-> 130,
     Ruby |-> 135, Crystal |-> 150, Diamond |-> 200]

\* LETTER_DAMAGE_AMOUNTS, the keys in hundredths, in the dict's order; a value
\* string is only ever asked "letter in value", so it is the set of its letters
LETTER_DAMAGE_AMOUNTS ==
    << [key |-> 100, value |-> {"a","d","e","g","i","l","n","o","r","s","t","u"}],
       [key |-> 125, value |-> {"b","c","f","h","m","p"}],
       [key |-> 150, value |-> {"v","w","y"}],
       [key |-> 175, value |-> {"j","k"}],
       [key |-> 200, value |-> {"x","z"}],
       [key |-> 275, value |-> {"q"}] >>

---------------------------------------------------------------------------
(* word_damage_calculator                                                  *)

\* The inner loop over LETTER_DAMAGE_AMOUNTS.items() for one letter:
\* every table row whose string holds the letter adds its key.
RECURSIVE LetterDamage(_, _)
LetterDamage(letter, row) ==
    IF row > Len(LETTER_DAMAGE_AMOUNTS) THEN 0
    ELSE (IF letter \in LETTER_DAMAGE_AMOUNTS[row].value
             THEN LETTER_DAMAGE_AMOUNTS[row].key ELSE 0)
         + LetterDamage(letter, row + 1)

\* A scan that scores a "qu" pair once: the u after a q is skipped.
RECURSIVE FusedScanDamage(_, _)
FusedScanDamage(word, i) ==
    IF i > Len(word) THEN 0
    ELSE IF word[i] = "u" /\ i > 1 /\ word[i - 1] = "q"
            THEN FusedScanDamage(word, i + 1)
            ELSE LetterDamage(word[i], 1) + FusedScanDamage(word, i + 1)

ScanDamageFused(word) == FusedScanDamage(word, 1)

\* "for letter in word: ... damage += key": every character is scored.
RECURSIVE ScanFrom(_, _)
ScanFrom(word, i) ==
    IF i > Len(word) THEN 0
    ELSE LetterDamage(word[i], 1) + ScanFrom(word, i + 1)

ScanDamage(word) == ScanFrom(word, 1)

\* multiplier *= factor, kept in lowest terms
MulFrac(m, f) ==
    LET n == m[1] * f
        d == m[2] * 100
        g == GCD(n, d)
    IN  <<n \div g, d \div g>>

\* The state of the multiplier loop: the fraction, and whether the lookup
\* GEM_DAMAGE_MODIFIERS[gem_type] has raised KeyError.
Mult(frac) == [raised |-> FALSE, frac |-> frac]
Raised == [raised |-> TRUE, frac |-> <<1, 1>>]

\* "for gem_l in letters: if gem_l in word: multiplier *= GEM_DAMAGE_MODIFIERS[gem_type]"
RECURSIVE GemLettersLoop(_, _, _, _, _)
GemLettersLoop(word, gem_type, letters, i, m) ==
    IF m.raised \/ i > Len(letters) THEN m
    ELSE IF In(letters[i], word)
            THEN IF gem_type \in DOMAIN GEM_DAMAGE_MODIFIERS
                    THEN GemLettersLoop(word, gem_type, letters, i + 1,
                             Mult(MulFrac(m.frac, GEM_DAMAGE_MODIFIERS[gem_type])))
                    ELSE Raised
            ELSE GemLettersLoop(word, gem_type, letters, i + 1, m)

\* "for gem_type, letters in gems_and_letters.items()": over the keys left.
RECURSIVE GemItemsLoop(_, _, _, _)
GemItemsLoop(word, gal, keys, m) ==
    IF m.raised \/ keys = {} THEN m
    ELSE LET k == CHOOSE x \in keys : TRUE
         IN  GemItemsLoop(word, gal, keys \ {k},
                          GemLettersLoop(word, k, gal[k], 1, m))

\* A multiplier to which a category contributes at most once.
RECURSIVE OncePerCategoryLoop(_, _, _, _)
OncePerCategoryLoop(word, gal, keys, m) ==
    IF m.raised \/ keys = {} THEN m
    ELSE LET k == CHOOSE x \in keys : TRUE
         IN  OncePerCategoryLoop(word, gal, keys \ {k},
                 IF \E i \in DOMAIN gal[k] : In(gal[k][i], word)
                    THEN IF k \in DOMAIN GEM_DAMAGE_MODIFIERS
                            THEN Mult(MulFrac(m.frac, GEM_DAMAGE_MODIFIERS[k]))
                            ELSE Raised
                    ELSE m)

GemMultiplierOnce(word, gal) == OncePerCategoryLoop(word, gal, DOMAIN gal, Mult(<<1, 1>>))

\* multiplier = 1, then the loop over the global gems_and_letters
GemMultiplier(word, gal) == GemItemsLoop(word, gal, DOMAIN gal, Mult(<<1, 1>>))

\* round(damage * multiplier, 2): Python rounds the double half to even; the
\* product n / d is exact in hundredths here (the factors the boards use are
\* binary fractions, so the double holds the exact product).
Round2(n, d) ==
    LET q == n \div d
        r == n % d
    IN  IF 2 * r > d THEN q + 1
        ELSE IF 2 * r = d THEN q + (q % 2)
        ELSE q

\* The locals of one call at its return: damage is the letter sum before the
\* multiplication, result the returned value in hundredths (0 when raised).
DamageCall(word, gal) ==
    LET damage == ScanDamage(word)
        m == GemMultiplier(word, gal)
    IN  [word |-> word, called |-> TRUE, damage |-> damage,
         multiplier |-> m.frac, raised |-> m.raised,
         result |-> IF m.raised THEN 0 ELSE Round2(damage * m.frac[1], m.frac[2])]

NoCall == [word |-> <<>>, called |-> FALSE, damage |-> 0, multiplier |-> <<1, 1>>,
           raised |-> FALSE, result |-> 0]

word_damage_calculator(word, gal) == DamageCall(word, gal)

---------------------------------------------------------------------------
(* get_board_letters: the text clean-up and the gem assignment.            *)

TilesPerSide == 4
NumTiles == TilesPerSide * TilesPerSide

UpperCase == <<"A","B","C","D","E","F","G","H","I","J","K","L","M",
               "N","O","P","Q","R","S","T","U","V","W","X","Y","Z">>
LowerCase == <<"a","b","c","d","e","f","g","h","i","j","k","l","m",
               "n","o","p","q","r","s","t","u","v","w","x","y","z">>

\* str.lower() on one character
LowerChar(c) ==
    IF In(c, UpperCase)
       THEN LowerCase[CHOOSE i \in DOMAIN UpperCase : UpperCase[i] = c]
       ELSE c

Lower(text) == [i \in DOMAIN text |-> LowerChar(text[i])]

\* str.strip(): leading and trailing blanks go
RECURSIVE Strip(_)
Strip(text) ==
    IF text = <<>> THEN text
    ELSE IF Head(text) = " " THEN Strip(Tail(text))
    ELSE IF text[Len(text)] = " " THEN Strip(SubSeq(text, 1, Len(text) - 1))
    ELSE text

\* "for x in xs: text = text.replace(x, '')": every character of xs goes
RemoveEach(text, xs) == SelectSeq(text, LAMBDA c : c \notin xs)

\* text.replace(x, y) for single characters
ReplaceChar(text, x, y) == [i \in DOMAIN text |-> IF text[i] = x THEN y ELSE text[i]]

\* str(x) for x in range(1, 10)
Digits1to9 == {"1","2","3","4","5","6","7","8","9"}

\* A text in which "qu" stays two characters.
KeepQu(text) == text

\* text.replace('qu', 'q'): left to right, non-overlapping
RECURSIVE ReplaceQu(_)
ReplaceQu(text) ==
    IF text = <<>> THEN <<>>
    ELSE IF Len(text) >= 2 /\ text[1] = "q" /\ text[2] = "u"
            THEN <<"q">> \o ReplaceQu(SubSeq(text, 3, Len(text)))
            ELSE <<text[1]>> \o ReplaceQu(Tail(text))

\* Lines 148-155: lower case, no bonus symbols, 0 read as o, no countdown digits
Scrub(raw) ==
    LET t1 == Strip(Lower(raw))
        t2 == RemoveEach(t1, {" ", "|", "/"})
        t3 == ReplaceChar(t2, "0", "o")
    IN  RemoveEach(t3, Digits1to9)

\* Lines 148-157: from the joined OCR output to the returned text
CleanText(raw) == ReplaceQu(Scrub(raw))

\* "for g, l in zip(gems, text)": tile i of the zip, into the dict d
RECURSIVE ZipInto(_, _, _, _)
ZipInto(d, gs, text, i) ==
    IF i > Min(Len(gs), Len(text)) THEN d
    ELSE IF gs[i] = "---" THEN ZipInto(d, gs, text, i + 1)
    ELSE IF gs[i] \in DOMAIN d
            THEN ZipInto([d EXCEPT ![gs[i]] = @ \o <<text[i]>>], gs, text, i + 1)
            ELSE ZipInto([k \in DOMAIN d \cup {gs[i]} |->
                             IF k = gs[i] THEN <<text[i]>> ELSE d[k]],
                         gs, text, i + 1)

\* A zip that lists a letter once per category, however many tiles carry it.
RECURSIVE ZipIntoOnce(_, _, _, _)
ZipIntoOnce(d, gs, text, i) ==
    IF i > Min(Len(gs), Len(text)) THEN d
    ELSE IF gs[i] = "---" THEN ZipIntoOnce(d, gs, text, i + 1)
    ELSE IF gs[i] \in DOMAIN d
            THEN ZipIntoOnce([d EXCEPT ![gs[i]] =
                                 IF In(text[i], @) THEN @ ELSE @ \o <<text[i]>>],
                             gs, text, i + 1)
            ELSE ZipIntoOnce([k \in DOMAIN d \cup {gs[i]} |->
                                 IF k = gs[i] THEN <<text[i]>> ELSE d[k]],
                             gs, text, i + 1)

LetterSetsPerCategory(old, gs, text) == ZipIntoOnce(EmptyDict, gs, text, 1)

\* A dict that keeps the entries of the sample before.
CarryOverGems(old, gs, text) == ZipInto(old, gs, text, 1)

\* "gems_and_letters = {}" and then the zip loop
NewGemsAndLetters(old, gs, text) == ZipInto(EmptyDict, gs, text, 1)

---------------------------------------------------------------------------
(* main(): the dictionary filter, the matcher, the sort and the print-out. *)

MinWordLen == 5
MaxWordLen == 16
DisplayLimit == 30

\* ALL_WORDS = tuple([word for word in full_word_set if 16 >= len(word) > 5])
FilterByLength(full_word_set) ==
    SelectSeq(full_word_set, LAMBDA w : MaxWordLen >= Len(w) /\ Len(w) > MinWordLen)

\* Counter(text): the keys are the characters that occur
CounterOf(text) == [c \in Range(text) |-> Count(c, text)]

\* counter[c]: a missing key reads as 0 and is not inserted
CounterGet(counter, c) == IF c \in DOMAIN counter THEN counter[c] ELSE 0

\* A matcher that only asks that each character of the word is on the board.
WordIsValidIgnoringCounts(word, counter) ==
    \A i \in DOMAIN word : CounterGet(counter, word[i]) >= 1

\* all(letter_count[char] >= word_counter[char] for char in word)
WordIsValid(word, counter) ==
    \A i \in DOMAIN word : CounterGet(counter, word[i]) >= Count(word[i], word)

\* "for word in ALL_WORDS: if all(...): valid_words.append(word)"
MatchWords(words, counter) == SelectSeq(words, LAMBDA w : WordIsValid(w, counter))

\* The keys list.sort computes first, one call per element
SortKeys(words, gal) ==
    [i \in DOMAIN words |-> word_damage_calculator(words[i], gal)] \o <<>>

\* The words paired with their keys, in list order
Keyed(words, keys) == [i \in DOMAIN words |-> [word |-> words[i], key |-> keys[i].result]]

WordsOf(items) == [i \in DOMAIN items |-> items[i].word]

Max(values) == CHOOSE v \in values : \A w \in values : w <= v

\* The items of one key, later items first.
LaterFirst(items, v) ==
    LET same == SelectSeq(items, LAMBDA item : item.key = v)
    IN  [i \in DOMAIN same |-> same[Len(same) + 1 - i]]

\* The items of one key, in list order
InListOrder(items, v) == SelectSeq(items, LAMBDA item : item.key = v)

\* Greatest key first, items of equal key with the later item first.
RECURSIVE DescendingLaterFirst(_, _)
DescendingLaterFirst(items, values) ==
    IF values = {} THEN <<>>
    ELSE LaterFirst(items, Max(values))
         \o DescendingLaterFirst(items, values \ {Max(values)})

\* Greatest key first; the items of equal key keep their order.
RECURSIVE DescendingStable(_, _)
DescendingStable(items, values) ==
    IF values = {} THEN <<>>
    ELSE InListOrder(items, Max(values))
         \o DescendingStable(items, values \ {Max(values)})

SortUnstable(words, keys) ==
    WordsOf(DescendingLaterFirst(Keyed(words, keys), {keys[i].result : i \in DOMAIN keys}))

\* valid_words.sort(key=word_damage_calculator, reverse=True) once the keys
\* are there: list.sort is stable, also with reverse=True
SortByDamage(words, keys) ==
    WordsOf(DescendingStable(Keyed(words, keys), {keys[i].result : i \in DOMAIN keys}))

\* word.replace('q', 'qu')
RECURSIVE Decode(_)
Decode(word) ==
    IF word = <<>> THEN <<>>
    ELSE (IF Head(word) = "q" THEN <<"q", "u">> ELSE <<Head(word)>>) \o Decode(Tail(word))

PrintedEntry(word, gal) ==
    [word |-> Decode(word), damage |-> word_damage_calculator(word, gal).result]

\* A print-out of the whole list.
DisplayAll(words, gal) == [i \in DOMAIN words |-> PrintedEntry(words[i], gal)]

\* "for index, word in enumerate(valid_words[:30], start=1): print(...)"
Display(words, gal) ==
    [i \in 1..Min(DisplayLimit, Len(words)) |-> PrintedEntry(words[i], gal)]

---------------------------------------------------------------------------
(* The inputs: dictionaries (ba2_words.json) and board samples (what the   *)
(* tile classifier and the OCR return for one screenshot).                 *)

MaxFiles == 2
ExtraWords == 2
MaxCalcLen == 4

\* The word database writes "qu" as q: qantum is quantum.
BaseDict ==
    << <<"q","a","n","t","u","m">>,
       <<"t","u","n","a">>,
       <<"m","u","t","a","n","t">>,
       <<"m","a","n","t","u","a">>,
       <<"a","n","t","a","m","a","q","a","n","t","u","m","m","u","t","a","n">>,
       <<"t","a","m","t","a","m">> >>

Reverse(s) == [i \in DOMAIN s |-> s[Len(s) + 1 - i]]

\* Word number n over {a, b}: letter j is b when bit j of n is set.
Pow2(k) == IF k = 0 THEN 1 ELSE IF k = 1 THEN 2 ELSE IF k = 2 THEN 4
           ELSE IF k = 3 THEN 8 ELSE IF k = 4 THEN 16 ELSE 32
BitWord(n) ==
    [j \in 1..(MinWordLen + 1) |->
        IF (n \div Pow2(MinWordLen + 1 - j)) % 2 = 1 THEN "b" ELSE "a"]

\* More matching words than the print-out shows.
LongDict == [i \in 1..(DisplayLimit + ExtraWords) |-> BitWord(i - 1)]

Dictionaries == {BaseDict, Reverse(BaseDict), LongDict}

\* The 16 classifications of a board whose first tiles carry the gems of row.
Pad(row) == row \o [i \in 1..(NumTiles - Len(row)) |-> "---"]

\* Classifier outputs: a plain board, the same gem twice, two gems, and the
\* category classify_color names "Black".
GemRows ==
    { Pad(<<>>),
      Pad(<<"Sapphire", "Sapphire">>),
      Pad(<<"Sapphire", "Diamond">>),
      Pad(<<"---", "Black">>) }

\* OCR outputs: the tile glyphs in reading order, with the noise the clean-up
\* is written for.  A Qu tile reads as the two characters q u.
ShortTexts ==
    { <<"m", "a", "Q", "u", "n", "t", " ", "t">>,
      <<"t", "t", "u", "q", "u", "a", "n", "m", "/">>,
      <<"t", "x", "t", "u", "m", "A", "N", "a", "7">> }

\* A board that matches every word of LongDict
LongText == <<"a", "b", "a", "b", "a", "b", "a", "b", "a", "b", "a", "b", "0">>

\* OCR outputs that leave no letter
BlankTexts == { <<>>, <<" ", "|", "3">> }

Samples ==
    {[gems |-> g, raw_text |-> r] : g \in GemRows, r \in ShortTexts}
    \cup {[gems |-> g, raw_text |-> LongText] :
             g \in {Pad(<<>>), Pad(<<"Sapphire", "Diamond">>)}}
    \cup {[gems |-> Pad(<<"Sapphire", "Diamond">>), raw_text |-> r] : r \in BlankTexts}

\* newest_file holds <<name>>, or <<>> while no file was looked at
NoFile == <<>>

---------------------------------------------------------------------------
(* The state machine of the polling loop.                                  *)

Init ==
    /\ dir = {}
    /\ analyzed_images = <<>>
    /\ gems_and_letters = EmptyDict
    /\ \E full_word_set \in Dictionaries : ALL_WORDS = FilterByLength(full_word_set)
    /\ newest_file = NoFile
    /\ gems = <<>>
    /\ raw_text = <<>>
    /\ input_letters = <<>>
    /\ letter_count = EmptyDict
    /\ valid_words = <<>>
    /\ printed = <<>>
    /\ outcome = "start"
    /\ pc = "running"
    /\ calc = NoCall

\* Steam writes a new screenshot into the directory.
AddFile ==
    /\ pc = "running"
    /\ Cardinality(dir) < MaxFiles
    /\ dir' = dir \cup {Cardinality(dir) + 1}
    /\ UNCHANGED <<analyzed_images, gems_and_letters, ALL_WORDS, newest_file, gems,
                   raw_text, input_letters, letter_count, valid_words, printed,
                   outcome, pc, calc>>

\* os.listdir gives the names in arbitrary order
Listings(d) == {s \in [1..Cardinality(d) -> d] : Range(s) = d}

\* files[-1] over the listings of a directory that holds files
LastListed(d) == {s[Len(s)] : s \in Listings(d)}

\* A poll that analyzes whatever file is listed last.
AlwaysAnalyze(file, analyzed) == TRUE

\* "if newest_file not in analyzed_images"
ShouldAnalyze(file, analyzed) == ~In(file, analyzed)

\* "if not len(files): return ''"
PollNoFiles ==
    /\ pc = "running"
    /\ dir = {}
    /\ newest_file' = NoFile
    /\ input_letters' = <<>>
    /\ printed' = <<>>
    /\ outcome' = "no_files"
    /\ UNCHANGED <<dir, analyzed_images, gems_and_letters, ALL_WORDS, gems, raw_text,
                   letter_count, valid_words, pc, calc>>

\* The newest file is known: the else branch, "return ''"
PollSeen ==
    /\ pc = "running"
    /\ dir # {}
    /\ \E newest \in LastListed(dir) :
          /\ ~ShouldAnalyze(newest, analyzed_images)
          /\ newest_file' = <<newest>>
    /\ input_letters' = <<>>
    /\ printed' = <<>>
    /\ outcome' = "seen"
    /\ UNCHANGED <<dir, analyzed_images, gems_and_letters, ALL_WORDS, gems, raw_text,
                   letter_count, valid_words, pc, calc>>

\* The newest file is analyzed and, when it yields letters, ranked.
PollAnalyze ==
    /\ pc = "running"
    /\ dir # {}
    /\ \E newest \in LastListed(dir), sample \in Samples :
          /\ ShouldAnalyze(newest, analyzed_images)
          /\ \E text \in {CleanText(sample.raw_text)} :
             \E gal \in {NewGemsAndLetters(gems_and_letters, sample.gems, text)} :
                /\ newest_file' = <<newest>>
                /\ gems' = sample.gems
                /\ raw_text' = sample.raw_text
                /\ analyzed_images' = Append(analyzed_images, newest)
                /\ gems_and_letters' = gal
                /\ input_letters' = text
                /\ IF text = <<>>
                      THEN /\ outcome' = "no_text"
                           /\ printed' = <<>>
                           /\ UNCHANGED <<letter_count, valid_words, pc>>
                      ELSE \E matched \in {MatchWords(ALL_WORDS, CounterOf(text))} :
                           \E keys \in {SortKeys(matched, gal)} :
                              /\ letter_count' = CounterOf(text)
                              /\ IF \E i \in DOMAIN keys : keys[i].raised
                                    THEN /\ valid_words' = matched
                                         /\ printed' = <<>>
                                         /\ outcome' = "KeyError"
                                         /\ pc' = "crashed"
                                    ELSE \E sorted \in {SortByDamage(matched, keys)} :
                                            /\ valid_words' = sorted
                                            /\ printed' = Display(sorted, gal)
                                            /\ outcome' = "ranked"
                                            /\ pc' = pc
    /\ UNCHANGED <<dir, ALL_WORDS, calc>>

\* One iteration of "while True" in main()
Poll == PollNoFiles \/ PollSeen \/ PollAnalyze

Next == AddFile \/ Poll

Spec == Init /\ [][Next]_vars

---------------------------------------------------------------------------
(* word_damage_calculator as a function of a word and the global dict.     *)

CalcLetters == {"q", "u", "i", "z"}
CalcWords == UNION {[1..n -> CalcLetters] : n \in 0..MaxCalcLen}
CalcGems == {"---", "Sapphire", "Crystal", "Diamond", "Black"}
CalcAssignments ==
    {NewGemsAndLetters(EmptyDict, <<g1, g2>>, <<l1, l2>>) :
        g1 \in CalcGems, g2 \in CalcGems, l1 \in CalcLetters, l2 \in CalcLetters}

CalcInit ==
    /\ dir = {}
    /\ analyzed_images = <<>>
    /\ gems_and_letters \in CalcAssignments
    /\ ALL_WORDS = <<>>
    /\ newest_file = NoFile
    /\ gems = <<>>
    /\ raw_text = <<>>
    /\ input_letters = <<>>
    /\ letter_count = EmptyDict
    /\ valid_words = <<>>
    /\ printed = <<>>
    /\ outcome = "start"
    /\ pc = "running"
    /\ \E w \in CalcWords : calc = [NoCall EXCEPT !.word = w]

Calc ==
    /\ ~calc.called
    /\ calc' = word_damage_calculator(calc.word, gems_and_letters)
    /\ UNCHANGED <<dir, analyzed_images, gems_and_letters, ALL_WORDS, newest_file,
                   gems, raw_text, input_letters, letter_count, valid_words, printed,
                   outcome, pc>>

CalcNext == Calc

CalcSpec == CalcInit /\ [][CalcNext]_vars

---------------------------------------------------------------------------
(* Properties of the ranking pass (checked under Spec).                    *)

\* The poll just made ran the matcher on input_letters.
Matched == outcome \in {"ranked", "KeyError"}

BagOfLetters(s) == [c \in Range(s) |-> Count(c, s)]

\* C1: a dictionary word is in valid_words exactly when its letters, counted
\* with multiplicity, are contained in the board letters; the board letters
\* counter and the dictionary are as they were before the matcher ran.
C1_MatcherIsMultisetContainment ==
    Matched =>
        /\ \A i \in DOMAIN ALL_WORDS :
               In(ALL_WORDS[i], valid_words)
                   <=> (BagOfLetters(ALL_WORDS[i]) \sqsubseteq BagOfLetters(input_letters))
        /\ \A i \in DOMAIN valid_words : In(valid_words[i], ALL_WORDS)
        /\ letter_count = BagOfLetters(input_letters)
        /\ ALL_WORDS \in {FilterByLength(d) : d \in Dictionaries}

\* A pass that accepted a word and rejected another whose letters are all on
\* the board, though not often enough.
C1_Witness ==
    /\ outcome = "ranked"
    /\ valid_words # <<>>
    /\ \E i \in DOMAIN ALL_WORDS :
          /\ ~In(ALL_WORDS[i], valid_words)
          /\ Range(ALL_WORDS[i]) \subseteq Range(input_letters)

PositionInDictionary(w) == CHOOSE k \in DOMAIN ALL_WORDS : ALL_WORDS[k] = w

\* C4: the printed ranking is in descending damage order, and of two printed
\* words of equal damage the one earlier in the dictionary comes first.
C4_RankingIsStableDescending ==
    outcome = "ranked" =>
        \A i, j \in DOMAIN printed :
            i < j =>
                \/ printed[i].damage > printed[j].damage
                \/ /\ printed[i].damage = printed[j].damage
                   /\ PositionInDictionary(valid_words[i])
                          < PositionInDictionary(valid_words[j])

\* A ranking with two words of equal damage and two of different damage.
C4_Witness ==
    /\ outcome = "ranked"
    /\ \E i, j \in DOMAIN printed : i < j /\ printed[i].damage = printed[j].damage
    /\ \E i, j \in DOMAIN printed : printed[i].damage > printed[j].damage
    /\ gems_and_letters # EmptyDict

\* The glyphs of the sample as the clean-up leaves them before "qu" is fused.
BoardGlyphs == Scrub(raw_text)

\* The u glyphs that are a tile of their own, and the fused Qu tiles.
FreeUs ==
    Cardinality({i \in DOMAIN BoardGlyphs :
                    BoardGlyphs[i] = "u" /\ ~(i > 1 /\ BoardGlyphs[i - 1] = "q")})
FusedTiles ==
    Cardinality({i \in DOMAIN BoardGlyphs :
                    /\ BoardGlyphs[i] = "q"
                    /\ i < Len(BoardGlyphs)
                    /\ BoardGlyphs[i + 1] = "u"})

\* C5: a matched word has no more u than the board has u tiles of their own
\* and no more q (its "qu") than the board has fused tiles: a fused tile
\* supplies neither a lone u nor a lone q.
C5_FusedTileIsAtomic ==
    Matched =>
        \A i \in DOMAIN valid_words :
            /\ Count("u", valid_words[i]) <= FreeUs
            /\ Count("q", valid_words[i]) <= FusedTiles

\* A board whose only u is in a fused tile, and a dictionary word with a u
\* that the board lacks nothing else for: it was rejected.
C5_Witness ==
    /\ outcome = "ranked"
    /\ FreeUs = 0
    /\ FusedTiles >= 1
    /\ \E i \in DOMAIN ALL_WORDS :
          /\ In("u", ALL_WORDS[i])
          /\ \A c \in Range(ALL_WORDS[i]) \ {"u"} :
                 Count(c, ALL_WORDS[i]) <= Count(c, input_letters)
          /\ ~In(ALL_WORDS[i], valid_words)

\* C6 as claimed: the print-out is cut at a limit whose default is 50.
C6_DefaultLimitFifty ==
    outcome = "ranked" => Len(printed) = Min(50, Len(valid_words))

\* C6 (amended): the print-out is exactly the first min(30, matched words)
\* entries of the sorted matched list; the limit is the fixed 30.
C6_TruncatesToThirty ==
    outcome = "ranked" =>
        /\ Len(printed) = Min(30, Len(valid_words))
        /\ \A i \in DOMAIN printed :
               /\ printed[i].word = Decode(valid_words[i])
               /\ printed[i].damage
                      = word_damage_calculator(valid_words[i], gems_and_letters).result

\* A pass with more matched words than are printed.
C6_Witness == outcome = "ranked" /\ Len(valid_words) > 30 /\ Len(printed) = 30

UnknownCategories == DOMAIN gems_and_letters \ DOMAIN GEM_DAMAGE_MODIFIERS

\* C7 as claimed: a pass whose gem assignment holds a category outside the
\* fixed seven ends in an error and yields no ranking.
C7_UnknownGemFailsFast ==
    (Matched /\ UnknownCategories # {}) => outcome = "KeyError"

\* The tiles the zip pairs with a letter.
ZippedTiles == 1..Min(Len(gems), Len(input_letters))

\* The gem assignment was built from the sample in gems and input_letters.
Built == outcome \in {"ranked", "KeyError", "no_text"}

\* C8 as claimed: no letter is listed under two gem categories.
C8_LetterInOneCategory ==
    Built =>
        \A k1, k2 \in DOMAIN gems_and_letters :
            k1 # k2 => Range(gems_and_letters[k1]) \cap Range(gems_and_letters[k2]) = {}

\* C8 (amended): every tile with a gem is listed once, under its own category:
\* a category lists a letter as often as tiles of that gem carry the letter,
\* and the categories are the gems on the zipped tiles.
C8_TileInOneCategory ==
    Built =>
        /\ DOMAIN gems_and_letters = {gems[i] : i \in ZippedTiles} \ {"---"}
        /\ \A k \in DOMAIN gems_and_letters :
               \A c \in Range(input_letters) \cup Range(gems_and_letters[k]) :
                   Count(c, gems_and_letters[k])
                       = Cardinality({i \in ZippedTiles :
                                         gems[i] = k /\ input_letters[i] = c})

\* A board with one letter on two tiles of different gems.
C8_Witness ==
    /\ outcome = "ranked"
    /\ \E i, j \in ZippedTiles :
          /\ input_letters[i] = input_letters[j]
          /\ gems[i] # gems[j]
          /\ gems[i] # "---"
          /\ gems[j] # "---"

AssignmentEntries(gal) ==
    UNION {{<<k, gal[k][i]>> : i \in DOMAIN gal[k]} : k \in DOMAIN gal}

\* C9: the gem assignment a pass scores with holds exactly the (category,
\* letter) entries of the sample the pass matches against.
C9_AssignmentIsOfThisSample ==
    Matched =>
        AssignmentEntries(gems_and_letters)
            = {<<gems[i], input_letters[i]>> : i \in {t \in ZippedTiles : gems[t] # "---"}}

\* A pass on a second sample, with gems.
C9_Witness ==
    /\ outcome = "ranked"
    /\ Len(analyzed_images) >= 2
    /\ gems_and_letters # EmptyDict
    /\ valid_words # <<>>

NoDuplicates(s) == \A i, j \in DOMAIN s : s[i] = s[j] => i = j

\* A step of the loop that lists a known file last, or no file at all.
IdlePollStep ==
    /\ dir' = dir
    /\ newest_file' # NoFile => In(newest_file'[1], analyzed_images)
    /\ dir # {} => newest_file' # NoFile

\* C10: no file name is in analyzed_images twice, and a poll that finds no
\* file or a known newest file returns '', ranks nothing and leaves
\* analyzed_images and gems_and_letters alone.
C10_AnalyzedAtMostOnce ==
    /\ [](NoDuplicates(analyzed_images))
    /\ [][IdlePollStep =>
             /\ input_letters' = <<>>
             /\ outcome' \notin {"ranked", "KeyError", "no_text"}
             /\ printed' = <<>>
             /\ analyzed_images' = analyzed_images
             /\ gems_and_letters' = gems_and_letters]_vars

\* A poll that found its newest file analyzed already, after a ranking.
C10_Witness ==
    /\ outcome = "seen"
    /\ analyzed_images # <<>>
    /\ valid_words # <<>>

---------------------------------------------------------------------------
(* Properties of word_damage_calculator (checked under CalcSpec).          *)

\* The call returned a damage.
Returned == calc.called /\ ~calc.raised

FactorOf(k) == IF k \in DOMAIN GEM_DAMAGE_MODIFIERS THEN GEM_DAMAGE_MODIFIERS[k] ELSE 100

RECURSIVE Power(_, _)
Power(b, e) == IF e = 0 THEN 1 ELSE b * Power(b, e - 1)

\* The product over the categories in keys of (factor / 100) ^ exps[k], as
\* <<numerator, denominator>>.
RECURSIVE ProductOfPowers(_, _)
ProductOfPowers(keys, exps) ==
    IF keys = {} THEN <<1, 1>>
    ELSE LET k == CHOOSE x \in keys : TRUE
             rest == ProductOfPowers(keys \ {k}, exps)
         IN  <<rest[1] * Power(FactorOf(k), exps[k]), rest[2] * Power(100, exps[k])>>

SameFraction(a, b) == a[1] * b[2] = a[2] * b[1]

\* How many entries of category k name a letter of the word.
ListedLettersInWord(k) ==
    Cardinality({i \in DOMAIN gems_and_letters[k] :
                    In(gems_and_letters[k][i], calc.word)})

\* C2 as claimed: a category with a letter in the word multiplies once.
C2_CategoryMultipliesOnce ==
    Returned =>
        SameFraction(calc.multiplier,
            ProductOfPowers(DOMAIN gems_and_letters,
                [k \in DOMAIN gems_and_letters |->
                    IF ListedLettersInWord(k) > 0 THEN 1 ELSE 0]))

\* C2 (amended): a category multiplies the multiplier by its factor once for
\* every entry of its letter list whose letter occurs in the word, and not at
\* all when none does.
C2_CategoryMultipliesPerListedLetter ==
    Returned =>
        SameFraction(calc.multiplier,
            ProductOfPowers(DOMAIN gems_and_letters,
                [k \in DOMAIN gems_and_letters |-> ListedLettersInWord(k)]))

\* A call where one category lists two entries that occur in the word.
C2_Witness ==
    /\ Returned
    /\ \E k \in DOMAIN gems_and_letters : ListedLettersInWord(k) = 2
    /\ calc.multiplier # <<1, 1>>

\* The table value of the letters the calls are made with.
TableValue(c) ==
    CASE c = "q" -> 275
      [] c = "z" -> 200
      [] OTHER -> 100

\* Positions of a u that directly follows a q.
FusedUs(word) == {i \in DOMAIN word : i > 1 /\ word[i] = "u" /\ word[i - 1] = "q"}

RECURSIVE SumOver(_, _)
SumOver(word, positions) ==
    IF positions = {} THEN 0
    ELSE LET i == CHOOSE x \in positions : TRUE
         IN  TableValue(word[i]) + SumOver(word, positions \ {i})

\* C3 as claimed: without gems the u of a "qu" pair is not scored, and
\* damage("quiz") is 5.75.
C3_FusedPairScoredOnce ==
    (Returned /\ gems_and_letters = EmptyDict) =>
        /\ calc.result = SumOver(calc.word, DOMAIN calc.word \ FusedUs(calc.word))
        /\ calc.word = <<"q", "u", "i", "z">> => calc.result = 575

\* C3 (amended): without gems the damage is the sum of the table values of
\* all characters of the word; q is the fused tile and scores 2.75, and a u
\* written after it scores 1.00 more: damage("qiz") is 5.75, damage("quiz") 6.75.
C3_EveryCharacterScored ==
    (Returned /\ gems_and_letters = EmptyDict) =>
        /\ calc.result = SumOver(calc.word, DOMAIN calc.word)
        /\ calc.word = <<"q", "i", "z">> => calc.result = 575
        /\ calc.word = <<"q", "u", "i", "z">> => calc.result = 675

\* The call damage("quiz") without gems has returned.
C3_Witness ==
    /\ Returned
    /\ gems_and_letters = EmptyDict
    /\ calc.word = <<"q", "u", "i", "z">>
    /\ calc.result = 675

====
